---- MODULE Spec2Model ----
(***************************************************************************)
(* Model of src/oscar/models/fields/decimal.py: the customised model and   *)
(* form fields InternalIdentifierField, FormattedDecimalFormField,         *)
(* FormattedDecimalField, MoneyValueField and QuantityField, and the       *)
(* IdentifierValidator.                                                    *)
(*                                                                         *)
(* Strings are sequences of one-character strings.  A finite Decimal is a  *)
(* record [sign, digits, exp] as returned by Decimal.as_tuple(): sign is   *)
(* 0 or 1, digits is the coefficient without leading zeros (<<0>> for      *)
(* zero) and exp the exponent.  NaN and the infinities are left out: no    *)
(* property stated here speaks about them.                                 *)
(***************************************************************************)
EXTENDS Integers, Sequences, FiniteSets, TLC

VARIABLES
    call,       \* the last call made: [op |-> ..., ...arguments...]
    outcome,    \* what that call did: [kind |-> "return" | "raise", ...]
    kwargs,     \* the **kwargs dict of the constructor that was called
    field,      \* the model field instance, NoField until it is constructed
    rebuilt,    \* the field reconstructed from field.deconstruct(), NoField before
    widget,     \* the form widget handed to widget_attrs: [number_input, attrs]
    form_field  \* the FormattedDecimalFormField: [has_decimal_places, decimal_places]

vars == <<call, outcome, kwargs, field, rebuilt, widget, form_field>>

PyNone == [type |-> "NoneType"]                 \* Python's None
PyStr(s) == [type |-> "str", s |-> s]
PyBool(b) == [type |-> "bool", b |-> b]
PyInt(sign, digits) == [type |-> "int", sign |-> sign, digits |-> digits]
PyFloat(repr) == [type |-> "float", repr |-> repr]      \* a float, by its repr()
PyDecimal(d) == [type |-> "Decimal", d |-> d]
NoCall == [op |-> "none"]
NoOutcome == [kind |-> "none"]

Return(v) == [kind |-> "return", value |-> v]
Raise(exc, msg) == [kind |-> "raise", exc |-> exc, msg |-> msg]

(***************************************************************************)
(* Characters and digit strings                                            *)
(***************************************************************************)
DigitChars == <<"0", "1", "2", "3", "4", "5", "6", "7", "8", "9">>

DigitChar(d) == DigitChars[d + 1]
IsDigitChar(c) == \E d \in 0..9 : DigitChars[d + 1] = c
CharDigit(c) == CHOOSE d \in 0..9 : DigitChars[d + 1] = c

Rep(x, n) == [i \in 1..n |-> x]

DigitsToStr(ds) == [i \in 1..Len(ds) |-> DigitChar(ds[i])]
StrToDigits(s) == [i \in 1..Len(s) |-> CharDigit(s[i])]

\* str(int(s)) on a digit string: leading zeros dropped, "0" kept for zero
RECURSIVE StripLeadingZeros(_)
StripLeadingZeros(ds) ==
    IF Len(ds) > 1 /\ ds[1] = 0 THEN StripLeadingZeros(Tail(ds)) ELSE ds

\* decimal digits of a natural number ("%d" % n)
RECURSIVE NatToDigits(_)
NatToDigits(n) ==
    IF n < 10 THEN <<n>> ELSE Append(NatToDigits(n \div 10), n % 10)

\* int(s) for a digit sequence
RECURSIVE DigitsToNat(_)
DigitsToNat(ds) ==
    IF Len(ds) = 0 THEN 0
    ELSE 10 * DigitsToNat(SubSeq(ds, 1, Len(ds) - 1)) + ds[Len(ds)]

(***************************************************************************)
(* decimal.Decimal: construction from a string, str(), normalize() and     *)
(* format(., 'f')                                                          *)
(***************************************************************************)
Dec(sign, digits, exp) == [sign |-> sign, digits |-> digits, exp |-> exp]

IsZero(d) == d.digits = <<0>>

\* position of the first character of s that is in cs, 0 when there is none
FirstIn(s, cs) ==
    IF \E i \in 1..Len(s) : s[i] \in cs
    THEN CHOOSE i \in 1..Len(s) : s[i] \in cs /\ \A j \in 1..(i - 1) : s[j] \notin cs
    ELSE 0

AllDigits(s) == \A i \in 1..Len(s) : IsDigitChar(s[i])

\* The pieces of a numeric string  [sign] int [. frac] [E [sign] digits]
SignLen(s) == IF Len(s) > 0 /\ s[1] \in {"-", "+"} THEN 1 ELSE 0
Body(s) == SubSeq(s, SignLen(s) + 1, Len(s))
Mantissa(s) ==
    LET b == Body(s)  e == FirstIn(b, {"E", "e"})
    IN  IF e = 0 THEN b ELSE SubSeq(b, 1, e - 1)
ExpPart(s) ==
    LET b == Body(s)  e == FirstIn(b, {"E", "e"})
    IN  IF e = 0 THEN <<>> ELSE SubSeq(b, e + 1, Len(b))
HasExp(s) == FirstIn(Body(s), {"E", "e"}) # 0
IntPart(s) ==
    LET m == Mantissa(s)  p == FirstIn(m, {"."})
    IN  IF p = 0 THEN m ELSE SubSeq(m, 1, p - 1)
FracPart(s) ==
    LET m == Mantissa(s)  p == FirstIn(m, {"."})
    IN  IF p = 0 THEN <<>> ELSE SubSeq(m, p + 1, Len(m))

\* the strings decimal.Decimal(s) accepts as finite numbers
IsNumericStr(s) ==
    /\ AllDigits(IntPart(s))
    /\ AllDigits(FracPart(s))
    /\ Len(IntPart(s)) + Len(FracPart(s)) >= 1
    /\ HasExp(s) =>
          LET x == ExpPart(s)  n == SignLen(x)
          IN  Len(x) > n /\ AllDigits(SubSeq(x, n + 1, Len(x)))

ExpValue(s) ==
    IF ~HasExp(s) THEN 0
    ELSE LET x == ExpPart(s)
             n == SignLen(x)
             v == DigitsToNat(StrToDigits(SubSeq(x, n + 1, Len(x))))
         IN  IF n = 1 /\ x[1] = "-" THEN 0 - v ELSE v

\* decimal.Decimal(s) for a numeric string s
DecimalOfStr(s) ==
    Dec(IF SignLen(s) = 1 /\ s[1] = "-" THEN 1 ELSE 0,
        StripLeadingZeros(StrToDigits(IntPart(s) \o FracPart(s))),
        ExpValue(s) - Len(FracPart(s)))

SignStr(d) == IF d.sign = 1 THEN <<"-">> ELSE <<>>

\* str(d): scientific notation when the exponent is positive or the value small
DecimalStr(d) ==
    LET int == DigitsToStr(d.digits)
        leftdigits == d.exp + Len(int)
        dotplace == IF d.exp <= 0 /\ leftdigits > -6 THEN leftdigits ELSE 1
        intpart == IF dotplace <= 0 THEN <<"0">>
                   ELSE IF dotplace >= Len(int)
                        THEN int \o Rep("0", dotplace - Len(int))
                        ELSE SubSeq(int, 1, dotplace)
        fracpart == IF dotplace <= 0 THEN <<".">> \o Rep("0", 0 - dotplace) \o int
                    ELSE IF dotplace >= Len(int) THEN <<>>
                         ELSE <<".">> \o SubSeq(int, dotplace + 1, Len(int))
        e == leftdigits - dotplace
        exppart == IF e = 0 THEN <<>>
                   ELSE <<"E", IF e < 0 THEN "-" ELSE "+">>
                        \o DigitsToStr(NatToDigits(IF e < 0 THEN 0 - e ELSE e))
    IN  SignStr(d) \o intpart \o fracpart \o exppart

\* format(d, 'f'): positional notation, no precision given
FormatF(d) ==
    LET int == DigitsToStr(d.digits)
        dotplace == d.exp + Len(int)
        intpart == IF dotplace < 0 THEN <<"0">>
                   ELSE IF dotplace > Len(int)
                        THEN int \o Rep("0", dotplace - Len(int))
                        ELSE IF dotplace = 0 THEN <<"0">> ELSE SubSeq(int, 1, dotplace)
        fracpart == IF dotplace < 0 THEN Rep("0", 0 - dotplace) \o int
                    ELSE IF dotplace > Len(int) THEN <<>>
                         ELSE SubSeq(int, dotplace + 1, Len(int))
    IN  SignStr(d) \o intpart \o (IF fracpart = <<>> THEN <<>> ELSE <<".">> \o fracpart)

\* precision of the decimal module's default context, which normalize() applies
Prec == 28

\* ds + 1 on a digit sequence (may grow by one digit)
RECURSIVE IncDigits(_)
IncDigits(ds) ==
    IF Len(ds) = 0 THEN <<1>>
    ELSE IF ds[Len(ds)] < 9
         THEN [ds EXCEPT ![Len(ds)] = @ + 1]
         ELSE Append(IncDigits(SubSeq(ds, 1, Len(ds) - 1)), 0)

\* ROUND_HALF_EVEN: does the coefficient ds, cut after `keep` digits, round up?
RoundsUp(ds, keep) ==
    LET rest == SubSeq(ds, keep + 1, Len(ds))
    IN  \/ rest[1] > 5
        \/ /\ rest[1] = 5
           /\ \/ \E i \in 2..Len(rest) : rest[i] # 0
              \/ ds[keep] % 2 = 1

\* Decimal._fix: round the coefficient to the context precision
Fix(d) ==
    IF Len(d.digits) <= Prec THEN d
    ELSE LET kept == SubSeq(d.digits, 1, Prec)
             c == IF RoundsUp(d.digits, Prec) THEN IncDigits(kept) ELSE kept
             e == d.exp + (Len(d.digits) - Prec)
         IN  IF Len(c) > Prec
             THEN Dec(d.sign, SubSeq(c, 1, Prec), e + 1)
             ELSE Dec(d.sign, c, e)

RECURSIVE StripTrailingZeros(_)
StripTrailingZeros(d) ==
    IF Len(d.digits) > 1 /\ d.digits[Len(d.digits)] = 0
    THEN StripTrailingZeros(Dec(d.sign, SubSeq(d.digits, 1, Len(d.digits) - 1), d.exp + 1))
    ELSE d

\* Decimal.normalize(): round to the context, strip trailing zeros, zero -> 0e0
normalize(d) ==
    LET ans == Fix(d)
    IN  IF IsZero(ans) THEN Dec(ans.sign, <<0>>, 0) ELSE StripTrailingZeros(ans)


(***************************************************************************)
(* FormattedDecimalField                                                   *)
(***************************************************************************)
DEFAULT_MAX_DIGITS == 100
DEFAULT_EXPONENT_LIMIT == 100

TooLarge == "Error! Exponent is too large for formatting"
TooSmall == "Error! Exponent is too small for formatting"
TooManyDigits == "Error! Too many digits for formatting"

\* FormattedDecimalField.format_decimal(value, max_digits, exponent_limit)
format_decimal(value, max_digits, exponent_limit) ==
    LET val == normalize(value)
    IN  IF val.exp > exponent_limit THEN Raise("ValueError", TooLarge)
        ELSE IF val.exp < 0 - exponent_limit THEN Raise("ValueError", TooSmall)
        ELSE IF Len(val.digits) > max_digits THEN Raise("ValueError", TooManyDigits)
        ELSE Return(PyStr(FormatF(val)))

\* isinstance(value, numbers.Number)
IsNumber(v) == v.type \in {"int", "bool", "float", "Decimal"}

\* str(value)
str(v) ==
    CASE v.type = "NoneType" -> <<"N", "o", "n", "e">>
      [] v.type = "str" -> v.s
      [] v.type = "bool" -> IF v.b THEN <<"T", "r", "u", "e">> ELSE <<"F", "a", "l", "s", "e">>
      [] v.type = "int" -> (IF v.sign = 1 THEN <<"-">> ELSE <<>>) \o DigitsToStr(v.digits)
      [] v.type = "float" -> v.repr
      [] v.type = "Decimal" -> DecimalStr(v.d)

\* FormattedDecimalField.value_from_object(obj), value being the attribute of obj
value_from_object(value) ==
    IF IsNumber(value)
    THEN IF IsNumericStr(str(value))
         THEN format_decimal(DecimalOfStr(str(value)),
                             DEFAULT_MAX_DIGITS, DEFAULT_EXPONENT_LIMIT)
         ELSE Raise("decimal.InvalidOperation", "ConversionSyntax")
    ELSE Return(PyNone)

\* ---- the values the calls are made with ----
MaxCoeff == 25          \* short coefficients are 0..MaxCoeff
MaxExp == 3             \* small exponents are -MaxExp..MaxExp
SmallLimit == 2         \* a max_digits / exponent_limit passed by a caller

LongLens == {Prec, Prec + 1, DEFAULT_MAX_DIGITS, DEFAULT_MAX_DIGITS + 1}

Coefficients ==
    {NatToDigits(n) : n \in 0..MaxCoeff}
    \cup {Rep(1, n) : n \in LongLens}
    \cup {<<1>> \o Rep(0, n - 1) : n \in LongLens}
    \cup {Rep(9, n) : n \in LongLens}
    \cup {Rep(1, n - 1) \o <<5>> : n \in LongLens}

Exponents ==
    ((0 - MaxExp)..MaxExp)
    \cup {DEFAULT_EXPONENT_LIMIT - 1, DEFAULT_EXPONENT_LIMIT, DEFAULT_EXPONENT_LIMIT + 1}
    \cup {1 - DEFAULT_EXPONENT_LIMIT, 0 - DEFAULT_EXPONENT_LIMIT, 0 - DEFAULT_EXPONENT_LIMIT - 1}
    \cup {Prec - DEFAULT_MAX_DIGITS - 1, DEFAULT_MAX_DIGITS + 1 - Prec}

Decimals == {Dec(sg, c, e) : sg \in {0, 1}, c \in Coefficients, e \in Exponents}

Limits == {SmallLimit, DEFAULT_MAX_DIGITS}

Floats == {<<"0", ".", "5">>, <<"-", "2", ".", "5">>, <<"1", "0", "0", ".", "0">>,
           <<"1", "e", "+", "2", "2">>, <<"1", "e", "-", "0", "7">>}

AttributeValues ==
    {PyNone, PyStr(<<>>), PyStr(<<"1", "2">>), PyStr(<<"a", "b">>),
     PyBool(TRUE), PyBool(FALSE)}
    \cup ({PyInt(sg, NatToDigits(n)) : sg \in {0, 1}, n \in 0..MaxCoeff} \ {PyInt(1, <<0>>)})
    \cup {PyFloat(r) : r \in Floats}
    \cup {PyDecimal(d) : d \in Decimals}

NoField == [cls |-> "none"]
NoWidget == [cls |-> "none"]
NoKwargs == <<>>

FormatDecimalCalls ==
    {[op |-> "format_decimal", value |-> value,
      max_digits |-> max_digits, exponent_limit |-> exponent_limit] :
        value \in Decimals, max_digits \in Limits, exponent_limit \in Limits}

ValueFromObjectCalls == {[op |-> "value_from_object", value |-> value] : value \in AttributeValues}

\* a call is about to be made on a FormattedDecimalField
InitDecimal ==
    /\ call \in FormatDecimalCalls \cup ValueFromObjectCalls
    /\ outcome = NoOutcome
    /\ kwargs = NoKwargs
    /\ field = NoField
    /\ rebuilt = NoField
    /\ widget = NoWidget
    /\ form_field = NoField

FormatDecimal ==
    /\ call.op = "format_decimal"
    /\ outcome = NoOutcome
    /\ outcome' = format_decimal(call.value, call.max_digits, call.exponent_limit)
    /\ UNCHANGED <<call, kwargs, field, rebuilt, widget, form_field>>

ValueFromObject ==
    /\ call.op = "value_from_object"
    /\ outcome = NoOutcome
    /\ outcome' = value_from_object(call.value)
    /\ UNCHANGED <<call, kwargs, field, rebuilt, widget, form_field>>

NextDecimal == FormatDecimal \/ ValueFromObject

SpecDecimal == InitDecimal /\ [][NextDecimal]_vars


(***************************************************************************)
(* Properties of FormattedDecimalField                                     *)
(***************************************************************************)
Abs(n) == IF n < 0 THEN 0 - n ELSE n

\* the value's exponent magnitude and digit count are within the limits
WithinLimits(d, max_digits, exponent_limit) ==
    Abs(d.exp) <= exponent_limit /\ Len(d.digits) <= max_digits

\* plain positional notation: [-] digits [. digits], no exponent marker
IsPlain(s) ==
    /\ \A i \in 1..Len(s) : IsDigitChar(s[i]) \/ s[i] = "." \/ (s[i] = "-" /\ i = 1)
    /\ Cardinality({i \in 1..Len(s) : s[i] = "."}) <= 1
    /\ \E i \in 1..Len(s) : IsDigitChar(s[i])

\* the canonical form of a number: no trailing zeros in the coefficient, no rounding
Canonical(d) == IF IsZero(d) THEN Dec(0, <<0>>, 0) ELSE StripTrailingZeros(d)
SameNumber(a, b) == Canonical(a) = Canonical(b)

Called(op) == call.op = op /\ outcome # NoOutcome

\* C1: for every Decimal whose exponent magnitude is at most exponent_limit and
\* whose digit count is at most max_digits, format_decimal returns, without error,
\* a string in plain positional notation that denotes the same number.
C1_WithinLimitsFormatsExactly ==
    (Called("format_decimal")
        /\ WithinLimits(call.value, call.max_digits, call.exponent_limit))
    => /\ outcome.kind = "return"
       /\ IsPlain(outcome.value.s)
       /\ SameNumber(DecimalOfStr(outcome.value.s), call.value)

\* C2: a Decimal whose exponent is above exponent_limit, below -exponent_limit, or
\* whose number of digits is above max_digits makes format_decimal raise the
\* corresponding ValueError (too large, too small, too many digits).
C2_OutOfLimitsRaises ==
    Called("format_decimal") =>
        /\ call.value.exp > call.exponent_limit
              => outcome = Raise("ValueError", TooLarge)
        /\ call.value.exp < 0 - call.exponent_limit
              => outcome = Raise("ValueError", TooSmall)
        /\ (Abs(call.value.exp) <= call.exponent_limit
              /\ Len(call.value.digits) > call.max_digits)
              => outcome = Raise("ValueError", TooManyDigits)

\* the Decimal with the numeric value of an int, float or Decimal attribute value
AsDecimal(v) ==
    CASE v.type = "int" -> Dec(v.sign, v.digits, 0)
      [] v.type = "float" -> DecimalOfStr(v.repr)
      [] v.type = "Decimal" -> v.d

\* C10: value_from_object returns None for a value that is not a number; for an
\* int, float or Decimal within the limits it returns what format_decimal gives
\* for that value; and a value violating both an exponent limit and the digit
\* limit raises the exponent error, since the exponent checks come first.
C10_ValueFromObjectAndCheckOrder ==
    /\ (Called("value_from_object") /\ ~IsNumber(call.value))
          => outcome = Return(PyNone)
    /\ (Called("value_from_object") /\ call.value.type \in {"int", "float", "Decimal"}
          /\ WithinLimits(AsDecimal(call.value), DEFAULT_MAX_DIGITS, DEFAULT_EXPONENT_LIMIT))
          => outcome = format_decimal(AsDecimal(call.value),
                                      DEFAULT_MAX_DIGITS, DEFAULT_EXPONENT_LIMIT)
    /\ (Called("format_decimal")
          /\ Abs(call.value.exp) > call.exponent_limit
          /\ Len(call.value.digits) > call.max_digits)
          => outcome = Raise("ValueError",
                             IF call.value.exp > 0 THEN TooLarge ELSE TooSmall)


(***************************************************************************)
(* InternalIdentifierField                                                 *)
(***************************************************************************)
\* dict.setdefault(key, value) on a kwargs dict
setdefault(kw, key, value) == IF key \in DOMAIN kw THEN kw ELSE kw @@ (key :> value)

\* dict.pop(key, None)
pop(kw, key) == [k \in DOMAIN kw \ {key} |-> kw[k]]

\* dict[key] = value
setitem(kw, key, value) == (key :> value) @@ kw

\* bool(kwargs.get(key)) for a key holding a boolean when present
GetBool(kw, key) == IF key \in DOMAIN kw THEN kw[key] ELSE FALSE

DEFAULT_MAX_LENGTH == 64
InternalIdentifier == "internal identifier"
DoNotChange == "Do not change this value if you are not sure what you are doing."
MustSetUnique == "Error! You must explicitly set the unique flag"

\* the kwargs after the defaults of InternalIdentifierField.__init__ are applied
IdentifierDefaults(kw) ==
    LET k1 == setdefault(kw, "max_length", DEFAULT_MAX_LENGTH)
        k2 == setdefault(k1, "blank", TRUE)
        k3 == setdefault(k2, "null", GetBool(k2, "blank"))
        k4 == setdefault(k3, "verbose_name", InternalIdentifier)
        k5 == setdefault(k4, "help_text", DoNotChange)
    IN  setdefault(k5, "editable", FALSE)

\* models.CharField.__init__(**kw) followed by validators.append(IdentifierValidator):
\* the keyword arguments become the attributes of the field
IdentifierFieldOf(kw) ==
    [cls |-> "InternalIdentifierField",
     max_length |-> kw["max_length"], unique |-> kw["unique"],
     blank |-> kw["blank"], null |-> kw["null"],
     verbose_name |-> kw["verbose_name"], help_text |-> kw["help_text"],
     editable |-> kw["editable"],
     validators |-> <<"MaxLengthValidator", "IdentifierValidator">>]

\* a constructor that falls back to unique=False instead of insisting on the flag
InternalIdentifierField__init__UniqueDefaulted(kw) ==
    LET k == IdentifierDefaults(setdefault(kw, "unique", FALSE))
    IN  [outcome |-> Return(PyNone), kwargs |-> k, field |-> IdentifierFieldOf(k)]

\* InternalIdentifierField.__init__(**kw): the outcome, the kwargs dict when the
\* constructor is left, and the field (NoField when it was never initialised)
InternalIdentifierField__init__(kw) ==
    IF "unique" \notin DOMAIN kw
    THEN [outcome |-> Raise("ValueError", MustSetUnique), kwargs |-> kw, field |-> NoField]
    ELSE [outcome |-> Return(PyNone), kwargs |-> IdentifierDefaults(kw),
          field |-> IdentifierFieldOf(IdentifierDefaults(kw))]

\* models.CharField.get_prep_value: None and strings as they are, the rest through str()
CharField_get_prep_value(value) ==
    IF value.type \in {"NoneType", "str"} THEN value ELSE PyStr(str(value))

\* Python truthiness of None or a string
Truthy(v) == v.type = "str" /\ v.s # <<>>

\* InternalIdentifierField.get_prep_value(value)
get_prep_value(self, value) ==
    LET prepared_value == CharField_get_prep_value(value)
    IN  IF self.null
        THEN (IF Truthy(prepared_value) THEN prepared_value ELSE PyNone)
        ELSE prepared_value

\* models.Field.deconstruct: the keyword arguments that differ from Field's defaults.
\* max_length and verbose_name default to None there and are never None on an
\* InternalIdentifierField, help_text defaults to '', unique, blank and null to
\* False and editable to True.
Field_deconstruct(self) ==
    LET differs == {"max_length", "verbose_name"}
                   \cup (IF self.help_text # "" THEN {"help_text"} ELSE {})
                   \cup {k \in {"unique", "blank", "null"} : self[k] # FALSE}
                   \cup (IF self.editable # TRUE THEN {"editable"} ELSE {})
    IN  [k \in differs |-> self[k]]

\* InternalIdentifierField.deconstruct(): the kwargs of the returned 4-tuple
deconstruct(self) ==
    LET k0 == Field_deconstruct(self)
        k1 == setitem(k0, "null", self.null)
        k2 == setitem(k1, "unique", self.unique)
        k3 == setitem(k2, "blank", self.blank)
    IN  pop(pop(k3, "verbose_name"), "help_text")

\* ---- the values the calls are made with ----
Opt(key, values) == {<<>>} \cup {(key :> v) : v \in values}

IdentifierKwargs ==
    {u @@ b @@ n @@ m @@ e @@ v @@ h :
        u \in Opt("unique", BOOLEAN), b \in Opt("blank", BOOLEAN),
        n \in Opt("null", BOOLEAN), m \in Opt("max_length", {32, DEFAULT_MAX_LENGTH}),
        e \in Opt("editable", BOOLEAN), v \in Opt("verbose_name", {"identifier"}),
        h \in Opt("help_text", {"", "An internal name."})}

PrepValues == {PyNone, PyStr(<<>>), PyStr(<<"a", "b">>), PyInt(0, <<0>>), PyBool(FALSE)}

\* InternalIdentifierField(**kwargs) is about to be called
InitIdentifier ==
    /\ kwargs \in IdentifierKwargs
    /\ call = [op |-> "__init__", kwargs |-> kwargs]
    /\ outcome = NoOutcome
    /\ field = NoField
    /\ rebuilt = NoField
    /\ widget = NoWidget
    /\ form_field = NoField

Construct ==
    /\ call.op = "__init__"
    /\ outcome = NoOutcome
    /\ LET r == InternalIdentifierField__init__(kwargs)
       IN  /\ outcome' = r.outcome
           /\ kwargs' = r.kwargs
           /\ field' = r.field
    /\ UNCHANGED <<call, rebuilt, widget, form_field>>

GetPrepValue ==
    /\ field # NoField
    /\ \E value \in PrepValues :
           /\ call' = [op |-> "get_prep_value", value |-> value]
           /\ outcome' = Return(get_prep_value(field, value))
    /\ UNCHANGED <<kwargs, field, rebuilt, widget, form_field>>

Deconstruct ==
    /\ field # NoField
    /\ call' = [op |-> "deconstruct"]
    /\ outcome' = Return([type |-> "dict", kwargs |-> deconstruct(field)])
    /\ UNCHANGED <<kwargs, field, rebuilt, widget, form_field>>

\* the migration machinery rebuilds the field from the deconstructed kwargs
Reconstruct ==
    /\ Called("deconstruct")
    /\ rebuilt = NoField
    /\ LET r == InternalIdentifierField__init__(outcome.value.kwargs)
       IN  /\ call' = [op |-> "reconstruct", kwargs |-> outcome.value.kwargs]
           /\ outcome' = r.outcome
           /\ rebuilt' = r.field
    /\ UNCHANGED <<kwargs, field, widget, form_field>>

NextIdentifier == Construct \/ GetPrepValue \/ Deconstruct \/ Reconstruct

SpecIdentifier == InitIdentifier /\ [][NextIdentifier]_vars


(***************************************************************************)
(* Properties of InternalIdentifierField                                   *)
(***************************************************************************)
\* C3: constructing an InternalIdentifierField without the key 'unique' raises the
\* ValueError whatever the other keyword arguments are, before any default is
\* applied and before the field is initialised; with 'unique' present (True or
\* False) the constructor does not raise.
C3_UniqueMustBeExplicit ==
    Called("__init__") =>
        IF "unique" \notin DOMAIN call.kwargs
        THEN /\ outcome = Raise("ValueError", MustSetUnique)
             /\ kwargs = call.kwargs
             /\ field = NoField
        ELSE /\ outcome.kind = "return"
             /\ field # NoField
             /\ field.unique = call.kwargs["unique"]

C3_Witness ==
    /\ Called("__init__")
    /\ "unique" \notin DOMAIN call.kwargs
    /\ {"blank", "null", "max_length"} \subseteq DOMAIN call.kwargs
    /\ outcome.kind = "raise"

\* C4: on a field that permits blank values (by default or explicitly, whatever the
\* other arguments, an explicit null included) get_prep_value of the empty string
\* or of None returns None, never the empty string.
C4_BlankFieldStoresNone ==
    (Called("get_prep_value") /\ field.blank /\ call.value \in {PyNone, PyStr(<<>>)})
    => outcome = Return(PyNone)

\* C9: the kwargs returned by deconstruct hold the field's null, unique and blank
\* and neither verbose_name nor help_text; the field rebuilt from them is built
\* without error, has the same null, unique and blank, and deconstructs to the
\* same kwargs.
C9_DeconstructRoundTrips ==
    /\ Called("deconstruct") =>
          LET k == outcome.value.kwargs
          IN  /\ {"null", "unique", "blank"} \subseteq DOMAIN k
              /\ k["null"] = field.null
              /\ k["unique"] = field.unique
              /\ k["blank"] = field.blank
              /\ "verbose_name" \notin DOMAIN k
              /\ "help_text" \notin DOMAIN k
    /\ Called("reconstruct") =>
          /\ outcome.kind = "return"
          /\ rebuilt.null = field.null
          /\ rebuilt.unique = field.unique
          /\ rebuilt.blank = field.blank
          /\ deconstruct(rebuilt) = call.kwargs


(***************************************************************************)
(* IdentifierValidator = RegexValidator("[a-z][a-z_]+")                    *)
(***************************************************************************)
LowerCase == {"a", "b", "c", "d", "e", "f", "g", "h", "i", "j", "k", "l", "m",
              "n", "o", "p", "q", "r", "s", "t", "u", "v", "w", "x", "y", "z"}

\* the pattern [a-z][a-z_]+ matches s at position i
PatternMatchesAt(s, i) ==
    /\ s[i] \in LowerCase
    /\ i + 1 <= Len(s)
    /\ s[i + 1] \in LowerCase \cup {"_"}

\* re.search: the pattern matches somewhere in s
regex_search(s) == \E i \in 1..Len(s) : PatternMatchesAt(s, i)

\* RegexValidator.__call__(value): raise ValidationError unless the regex is found
IdentifierValidator(value) ==
    IF regex_search(value) THEN Return(PyNone)
    ELSE Raise("ValidationError", "Enter a valid value.")

MaxStrLen == 3          \* identifiers tried are at most this long
SampleChars == {"a", "z", "_", "A", "7", " "}

RECURSIVE StringsUpTo(_)
StringsUpTo(n) ==
    IF n = 0 THEN {<<>>}
    ELSE LET shorter == StringsUpTo(n - 1)
         IN  shorter \cup {Append(t, c) : t \in {u \in shorter : Len(u) = n - 1},
                                          c \in SampleChars}

InitValidator ==
    /\ call \in {[op |-> "IdentifierValidator", value |-> v] : v \in StringsUpTo(MaxStrLen)}
    /\ outcome = NoOutcome
    /\ kwargs = NoKwargs
    /\ field = NoField
    /\ rebuilt = NoField
    /\ widget = NoWidget
    /\ form_field = NoField

Validate ==
    /\ call.op = "IdentifierValidator"
    /\ outcome = NoOutcome
    /\ outcome' = IdentifierValidator(call.value)
    /\ UNCHANGED <<call, kwargs, field, rebuilt, widget, form_field>>

NextValidator == Validate

SpecValidator == InitValidator /\ [][NextValidator]_vars

\* C6: every string the identifier validator accepts is, as a whole, a lowercase
\* letter followed by lowercase letters or underscores: it holds only a-z and '_'
\* and begins with a lowercase letter.
C6_AcceptedAreIdentifiers ==
    (Called("IdentifierValidator") /\ outcome.kind = "return")
    => /\ Len(call.value) >= 1
       /\ call.value[1] \in LowerCase
       /\ \A i \in 1..Len(call.value) : call.value[i] \in LowerCase \cup {"_"}

(***************************************************************************)
(* FormattedDecimalFormField                                               *)
(***************************************************************************)
MAX_DECIMAL_PLACES_FOR_STEP == 5

StepAny == <<"a", "n", "y">>

\* decimal.Decimal('1') / 10 ** places: the quotient is exact, 1E-places
OneOverPowerOfTen(places) == Dec(0, <<1>>, 0 - places)

\* str.lower() on the characters a Decimal's str() can hold
lower(s) == [i \in 1..Len(s) |-> IF s[i] = "E" THEN "e" ELSE s[i]]

\* forms.DecimalField.widget_attrs, reached through super(): Field.widget_attrs
\* gives an empty dict, and a step is put in it only for a NumberInput whose
\* attrs hold no step
DecimalField_widget_attrs(self, w) ==
    IF w.number_input /\ "step" \notin DOMAIN w.attrs
    THEN IF self.has_decimal_places
         THEN ("step" :> lower(DecimalStr(OneOverPowerOfTen(self.decimal_places))))
         ELSE ("step" :> StepAny)
    ELSE <<>>

\* a widget_attrs that assigns the step instead of looking for an existing one
widget_attrs_Overwriting(self, w) ==
    IF w.number_input
    THEN IF ~self.has_decimal_places
         THEN [outcome |-> Raise("TypeError", "unorderable types"), widget |-> w]
         ELSE LET step == IF self.decimal_places <= MAX_DECIMAL_PLACES_FOR_STEP
                          THEN FormatF(OneOverPowerOfTen(self.decimal_places))
                          ELSE StepAny
                  w2 == [w EXCEPT !.attrs = setitem(w.attrs, "step", step)]
              IN  [outcome |-> Return([type |-> "dict",
                                       kwargs |-> DecimalField_widget_attrs(self, w2)]),
                   widget |-> w2]
    ELSE [outcome |-> Return([type |-> "dict", kwargs |-> DecimalField_widget_attrs(self, w)]),
          widget |-> w]

\* FormattedDecimalFormField.widget_attrs(widget): the outcome and the widget after
\* the call.  Comparing an unset decimal_places (None) with the limit, or raising
\* 10 to it, is a TypeError.
widget_attrs(self, w) ==
    IF w.number_input /\ "step" \notin DOMAIN w.attrs
    THEN IF ~self.has_decimal_places
         THEN [outcome |-> Raise("TypeError", "unorderable types"), widget |-> w]
         ELSE LET step == IF self.decimal_places <= MAX_DECIMAL_PLACES_FOR_STEP
                          THEN FormatF(OneOverPowerOfTen(self.decimal_places))
                          ELSE StepAny
                  w2 == [w EXCEPT !.attrs = setdefault(w.attrs, "step", step)]
              IN  [outcome |-> Return([type |-> "dict",
                                       kwargs |-> DecimalField_widget_attrs(self, w2)]),
                   widget |-> w2]
    ELSE [outcome |-> Return([type |-> "dict", kwargs |-> DecimalField_widget_attrs(self, w)]),
          widget |-> w]

MaxPlaces == 7          \* decimal_places tried are 0..MaxPlaces
MaxCalls == 2           \* widget_attrs is called at most this often on one widget

Steps == {<<"2">>, <<"0", ".", "5">>, StepAny}

Widgets ==
    {[number_input |-> n, attrs |-> st @@ mn] :
        n \in BOOLEAN, st \in Opt("step", Steps), mn \in Opt("min", {<<"0">>})}

FormFields ==
    {[has_decimal_places |-> TRUE, decimal_places |-> d] : d \in 0..MaxPlaces}
    \cup {[has_decimal_places |-> FALSE, decimal_places |-> 0]}

InitWidget ==
    /\ widget \in Widgets
    /\ form_field \in FormFields
    /\ call = [op |-> "none", n |-> 0]
    /\ outcome = NoOutcome
    /\ kwargs = NoKwargs
    /\ field = NoField
    /\ rebuilt = NoField

WidgetAttrs ==
    /\ call.n < MaxCalls
    /\ LET r == widget_attrs(form_field, widget)
       IN  /\ call' = [op |-> "widget_attrs", widget |-> widget, n |-> call.n + 1]
           /\ outcome' = r.outcome
           /\ widget' = r.widget
    /\ UNCHANGED <<kwargs, field, rebuilt, form_field>>

NextWidget == WidgetAttrs

SpecWidget == InitWidget /\ [][NextWidget]_vars

\* 10^-places in plain notation: "1", "0.1", "0.01", ...
PlainFraction(places) ==
    IF places = 0 THEN <<"1">> ELSE <<"0", ".">> \o Rep("0", places - 1) \o <<"1">>

\* C5: on a NumberInput without a step, widget_attrs sets the step to 10^-d in
\* plain notation when 0 <= d <= 5 and to 'any' when d > 5; for every configured
\* decimal_places, an unset one included, the step is one of these two forms.
C5_StepIsFractionOrAny ==
    (call.op = "widget_attrs" /\ call.widget.number_input
        /\ "step" \notin DOMAIN call.widget.attrs)
    => /\ outcome.kind = "return"
       /\ "step" \in DOMAIN widget.attrs
       /\ \/ widget.attrs["step"] = StepAny
          \/ \E d \in 0..MAX_DECIMAL_PLACES_FOR_STEP : widget.attrs["step"] = PlainFraction(d)
       /\ form_field.has_decimal_places =>
             widget.attrs["step"] =
                 IF form_field.decimal_places <= MAX_DECIMAL_PLACES_FOR_STEP
                 THEN PlainFraction(form_field.decimal_places)
                 ELSE StepAny

\* C8: widget_attrs leaves an existing step as it is, for every decimal_places;
\* it adds no step to a widget that is not a NumberInput; and a second call on
\* the same widget changes nothing the first call left.
C8_ExistingStepUntouched ==
    /\ [](call.op = "widget_attrs" =>
            /\ "step" \in DOMAIN call.widget.attrs => widget = call.widget
            /\ ~call.widget.number_input => widget = call.widget)
    /\ [][call.op = "widget_attrs" => widget' = widget]_vars

C8_Witness ==
    /\ call.op = "widget_attrs"
    /\ call.n = 2
    /\ widget.number_input
    /\ "step" \in DOMAIN widget.attrs
    /\ outcome.kind = "return"


(***************************************************************************)
(* MoneyValueField and QuantityField                                       *)
(***************************************************************************)
MONEY_FIELD_DECIMAL_PLACES == 9
FORMATTED_DECIMAL_FIELD_DECIMAL_PLACES == 9
FORMATTED_DECIMAL_FIELD_MAX_DIGITS == 36

\* models.DecimalField.__init__(**kw): the keyword arguments become the attributes
\* of the field; an attribute that was not given is not in attrs
DecimalFieldOf(cls, kw) == [cls |-> cls, attrs |-> kw]

\* MoneyValueField.__init__(**kw)
MoneyValueField__init__(kw) ==
    LET k1 == setdefault(kw, "decimal_places", MONEY_FIELD_DECIMAL_PLACES)
        k2 == setdefault(k1, "max_digits", FORMATTED_DECIMAL_FIELD_MAX_DIGITS)
    IN  [outcome |-> Return(PyNone), kwargs |-> k2,
         field |-> DecimalFieldOf("MoneyValueField", k2)]

\* a QuantityField constructor that assigns its defaults over the caller's values
QuantityField__init__Overriding(kw) ==
    LET k1 == setitem(kw, "decimal_places", FORMATTED_DECIMAL_FIELD_DECIMAL_PLACES)
        k2 == setitem(k1, "max_digits", FORMATTED_DECIMAL_FIELD_MAX_DIGITS)
        k3 == setitem(k2, "default", 0)
    IN  [outcome |-> Return(PyNone), kwargs |-> k3,
         field |-> DecimalFieldOf("QuantityField", k3)]

\* QuantityField.__init__(**kw)
QuantityField__init__(kw) ==
    LET k1 == setdefault(kw, "decimal_places", FORMATTED_DECIMAL_FIELD_DECIMAL_PLACES)
        k2 == setdefault(k1, "max_digits", FORMATTED_DECIMAL_FIELD_MAX_DIGITS)
        k3 == setdefault(k2, "default", 0)
    IN  [outcome |-> Return(PyNone), kwargs |-> k3,
         field |-> DecimalFieldOf("QuantityField", k3)]

MaxDefault == 2         \* default values tried are 0..MaxDefault

DecimalKwargs ==
    {d @@ m @@ f :
        d \in Opt("decimal_places", 0..(MONEY_FIELD_DECIMAL_PLACES + 1)),
        m \in Opt("max_digits", {12, FORMATTED_DECIMAL_FIELD_MAX_DIGITS, 40}),
        f \in Opt("default", 0..MaxDefault)}

InitMoney ==
    /\ kwargs \in DecimalKwargs
    /\ call \in {[op |-> "__init__", cls |-> c, kwargs |-> kwargs] :
                    c \in {"MoneyValueField", "QuantityField"}}
    /\ outcome = NoOutcome
    /\ field = NoField
    /\ rebuilt = NoField
    /\ widget = NoWidget
    /\ form_field = NoField

ConstructMoney ==
    /\ call.op = "__init__" /\ call.cls = "MoneyValueField"
    /\ outcome = NoOutcome
    /\ LET r == MoneyValueField__init__(kwargs)
       IN  outcome' = r.outcome /\ kwargs' = r.kwargs /\ field' = r.field
    /\ UNCHANGED <<call, rebuilt, widget, form_field>>

ConstructQuantity ==
    /\ call.op = "__init__" /\ call.cls = "QuantityField"
    /\ outcome = NoOutcome
    /\ LET r == QuantityField__init__(kwargs)
       IN  outcome' = r.outcome /\ kwargs' = r.kwargs /\ field' = r.field
    /\ UNCHANGED <<call, rebuilt, widget, form_field>>

NextMoney == ConstructMoney \/ ConstructQuantity

SpecMoney == InitMoney /\ [][NextMoney]_vars

\* the attribute is the caller's value when one was given, the default otherwise
KeptOrDefault(key, default) ==
    /\ key \in DOMAIN field.attrs
    /\ field.attrs[key] = IF key \in DOMAIN call.kwargs THEN call.kwargs[key] ELSE default

\* C7: a MoneyValueField built without decimal_places / max_digits has 9 and 36; a
\* QuantityField built without decimal_places / max_digits / default has 9, 36 and
\* 0; a keyword argument the caller supplies is kept as it is and the other
\* defaults still apply.
C7_MoneyAndQuantityDefaults ==
    Called("__init__") =>
        /\ field.cls = call.cls
        /\ KeptOrDefault("decimal_places", 9)
        /\ KeptOrDefault("max_digits", 36)
        /\ call.cls = "QuantityField" => KeptOrDefault("default", 0)
        /\ call.cls = "MoneyValueField" =>
              ("default" \in DOMAIN field.attrs <=> "default" \in DOMAIN call.kwargs)

C7_Witness ==
    /\ Called("__init__")
    /\ call.cls = "QuantityField"
    /\ "decimal_places" \in DOMAIN call.kwargs
    /\ call.kwargs["decimal_places"] # 9
    /\ "max_digits" \notin DOMAIN call.kwargs
    /\ field.attrs["decimal_places"] = call.kwargs["decimal_places"]
    /\ field.attrs["max_digits"] = 36


====
